---- MODULE Spec2Model ----
(***************************************************************************)
(* Model of the two refractive-index importers of Piper0:                  *)
(*   data/RefractiveIndextoPiper0.py  (CSV importer)                       *)
(*   data/mitsuba2toPiper0.py         (Mitsuba2 importer)                  *)
(*                                                                         *)
(* Text is a sequence of one-character strings.  Floats are fixed-point    *)
(* integers counting units of 1/Unit, so that 0.36 * 1e3 = 360 is exact    *)
(* (as it is in IEEE doubles for the literals used here).                  *)
(***************************************************************************)
EXTENDS Integers, Sequences, FiniteSets, TLC

VARIABLES
    rows,       \* parse: the list `res` after the line loop (line 33)
    res,        \* parse: the list `res` after the two trim loops (line 39)
    ret,        \* parse: the value returned (line 44)
    pstate,     \* parse: "parsed" | "returned" | "raised" | "idle"
    importer,   \* which script runs: "csv" | "mitsuba" | "none"
    materials,  \* the list `materials` built by the directory walk
    i,          \* number of materials the main loop has started on
    status,     \* "running" | "aborted" | "finished" | "idle"
    files,      \* the ior/ directory: output name -> written JSON object
    data,       \* CSV importer: text of the file read last (line 67)
    eta,        \* local `eta` of the main loop
    k,          \* local `k` of the main loop (CSV: after line 78)
    spd         \* Mitsuba2 importer: contents of the two files read last

vars == <<rows, res, ret, pstate, importer, materials, i, status, files, data, eta, k, spd>>

runVars == <<importer, materials, i, status, files, data, eta, k, spd>>
parseVars == <<rows, res, ret, pstate>>

\* ------------------------------------------------------------------ bounds
MaxLen == 4          \* samples in a table handed to the trim loops
MaxFrags == 4        \* text fragments in a generated CSV file
MaxMaterials == 3    \* materials found by the directory walk
MaxRows == 2         \* rows in a generated .spd file

\* --------------------------------------------------------------- constants
Unit == 10000                 \* fixed-point scale of a float
MinWavelength == 360 * Unit   \* 360 (nm)
MaxWavelength == 830 * Unit   \* 830 (nm)
MicroToNano == 1000           \* 1e3
KThreshold == Unit \div 1000  \* 1e-3

None == [none |-> TRUE]

\* ------------------------------------------------------------ range trimming
\* variants of the loops: <= for <, a guard of 3, a test of the first sample,
\* and no back loop
RECURSIVE FrontLoopStrict(_)
FrontLoopStrict(rs) ==
    IF Len(rs) >= 2 /\ rs[2][1] <= MinWavelength
    THEN FrontLoopStrict(Tail(rs))
    ELSE rs

RECURSIVE FrontLoopOne(_)
FrontLoopOne(rs) ==
    IF Len(rs) >= 3 /\ rs[2][1] < MinWavelength
    THEN FrontLoopOne(Tail(rs))
    ELSE rs

RECURSIVE FrontLoopHard(_)
FrontLoopHard(rs) ==
    IF Len(rs) >= 2 /\ rs[1][1] < MinWavelength
    THEN FrontLoopHard(Tail(rs))
    ELSE rs

\* while len(res) >= 2 and res[1][0] < 360: res.pop(0)
RECURSIVE FrontLoop(_)
FrontLoop(rs) ==
    IF Len(rs) >= 2 /\ rs[2][1] < MinWavelength
    THEN FrontLoop(Tail(rs))
    ELSE rs

BackLoopSkip(rs) == rs

\* while len(res) >= 2 and res[-2][0] > 830: res.pop(-1)
RECURSIVE BackLoop(_)
BackLoop(rs) ==
    IF Len(rs) >= 2 /\ rs[Len(rs) - 1][1] > MaxWavelength
    THEN BackLoop(SubSeq(rs, 1, Len(rs) - 1))
    ELSE rs

\* lines 35-39 of parse
Trim(rs) == BackLoop(FrontLoop(rs))

\* ------------------------------------------------------------------ arrays
\* A numpy array is its shape and its elements in row-major order; tolist()
\* yields lists nested as the shape says, so a JSON array is held the same way.
RECURSIVE Flatten(_)
Flatten(rs) == IF rs = <<>> THEN <<>> ELSE Head(rs) \o Flatten(Tail(rs))

\* np.array(res) for a list of [wavelength, value] rows
NpArray(rs) == [shape |-> <<Len(rs), 2>>, flat |-> Flatten(rs)]

\* the rows of a 2-D array
ArrayRows(a) ==
    [r \in 1..a.shape[1] |->
        SubSeq(a.flat, (r - 1) * a.shape[2] + 1, r * a.shape[2])]

\* np.transpose(a)[c] for a 2-D array: column c (0-based) of a
Column(a, c) == [r \in 1..a.shape[1] |-> a.flat[(r - 1) * a.shape[2] + c + 1]]

\* lines 35-44 of parse: trim, then raise on an empty list
ParseTail(rs) ==
    LET t == Trim(rs)
    IN  IF Len(t) = 0 THEN [raised |-> TRUE, value |-> None]
        ELSE [raised |-> FALSE, value |-> NpArray(t)]

\* ------------------------------------------------------------------- text
Digits == {"0", "1", "2", "3", "4", "5", "6", "7", "8", "9"}

DigitVal(c) ==
    CASE c = "0" -> 0 [] c = "1" -> 1 [] c = "2" -> 2 [] c = "3" -> 3
      [] c = "4" -> 4 [] c = "5" -> 5 [] c = "6" -> 6 [] c = "7" -> 7
      [] c = "8" -> 8 [] c = "9" -> 9

WLN == <<"w", "l", ",", "n">>      \* the marker "wl,n"
WLK == <<"w", "l", ",", "k">>      \* the marker "wl,k"

\* str.find: the lowest 0-based offset at which m occurs in s, or -1
Find(s, m) ==
    LET hits == {p \in 0..(Len(s) - Len(m)) : SubSeq(s, p + 1, p + Len(m)) = m}
    IN  IF hits = {} THEN -1
        ELSE CHOOSE p \in hits : \A q \in hits : p <= q

\* s[a:b] for offsets a, b >= 0; s[a:] is s[a:len(s)]
Slice(s, a, b) == SubSeq(s, a + 1, IF b < Len(s) THEN b ELSE Len(s))

\* str.split(sep): the fields between the occurrences of the character sep
RECURSIVE Split(_, _)
Split(s, sep) ==
    LET cuts == {p \in 1..Len(s) : s[p] = sep}
    IN  IF cuts = {} THEN <<s>>
        ELSE LET p == CHOOSE c \in cuts : \A d \in cuts : c <= d
             IN  <<SubSeq(s, 1, p - 1)>> \o Split(SubSeq(s, p + 1, Len(s)), sep)

\* str.splitlines: like split on the line break, without a trailing empty line
SplitLines(s) ==
    IF s = <<>> THEN <<>>
    ELSE LET parts == Split(s, "\n")
         IN  IF parts[Len(parts)] = <<>> THEN SubSeq(parts, 1, Len(parts) - 1)
             ELSE parts

RECURSIVE IntValue(_, _)
IntValue(ds, acc) ==
    IF ds = <<>> THEN acc ELSE IntValue(Tail(ds), acc * 10 + DigitVal(Head(ds)))

RECURSIVE FracValue(_, _)
FracValue(ds, scale) ==
    IF ds = <<>> \/ scale = 1 THEN 0
    ELSE DigitVal(Head(ds)) * (scale \div 10) + FracValue(Tail(ds), scale \div 10)

\* float(x) on text made of digits, ".", "-" and other characters: an optional
\* sign, then digits with at most one point and at least one digit; anything
\* else raises ValueError.  The value counts units of 1/Unit.
Float(x) ==
    LET neg  == Len(x) >= 1 /\ x[1] = "-"
        body == IF neg THEN Tail(x) ELSE x
        dots == {p \in 1..Len(body) : body[p] = "."}
        ok   == /\ \A p \in 1..Len(body) : body[p] \in Digits \cup {"."}
                /\ Cardinality(dots) <= 1
                /\ \E p \in 1..Len(body) : body[p] \in Digits
        dot  == IF dots = {} THEN Len(body) + 1 ELSE CHOOSE p \in dots : TRUE
        mag  == IntValue(SubSeq(body, 1, dot - 1), 0) * Unit
                  + FracValue(SubSeq(body, dot + 1, Len(body)), Unit)
    IN  IF ~ok THEN [raised |-> TRUE, value |-> 0]
        ELSE [raised |-> FALSE, value |-> IF neg THEN 0 - mag ELSE mag]

\* k, v = list(map(float, line.split(","))); res.append([k*1e3, v])
ParseLine(line) ==
    LET fields == Split(line, ",")
        floats == [j \in 1..Len(fields) |-> Float(fields[j])]
    IN  IF Len(fields) /= 2 \/ floats[1].raised \/ floats[2].raised
        THEN [raised |-> TRUE, value |-> <<>>]
        ELSE [raised |-> FALSE, value |-> <<floats[1].value * MicroToNano, floats[2].value>>]

\* the line loop of parse (lines 28-33): the rows of the non-empty lines
RECURSIVE ParseLines(_)
ParseLines(ls) ==
    IF ls = <<>> THEN [raised |-> FALSE, value |-> <<>>]
    ELSE IF Len(Head(ls)) = 0 THEN ParseLines(Tail(ls))
    ELSE LET r == ParseLine(Head(ls))
         IN  IF r.raised THEN [raised |-> TRUE, value |-> <<>>]
             ELSE LET rest == ParseLines(Tail(ls))
                  IN  IF rest.raised THEN rest
                      ELSE [raised |-> FALSE, value |-> <<r.value>> \o rest.value]

\* parse(lines)
Parse(lines) ==
    LET r == ParseLines(SplitLines(lines))
    IN  IF r.raised THEN [raised |-> TRUE, value |-> None] ELSE ParseTail(r.value)

\* ------------------------------------------------------------ JSON output
Texture(a) == [Type |-> "SampledSpectrumTexture", Array |-> a]

Absent == [absent |-> TRUE]     \* no such file in ior/
Stale == [stale |-> TRUE]       \* a file left in ior/ by an earlier run
Truncated == [truncated |-> TRUE]   \* a file opened for writing, nothing dumped

IsOutput(f) == "Eta" \in DOMAIN f

\* ------------------------------------------------- CSV importer, main loop
\* the test with > for <
NegligibleFlipped(a) == \A r \in 1..a.shape[1] : Column(a, 1)[r] > KThreshold

\* np.all(np.transpose(k)[1] < 1e-3)
Negligible(a) == \A r \in 1..a.shape[1] : Column(a, 1)[r] < KThreshold

\* lines 71-75: the texts handed to parse, in the order of the calls, given
\* the offsets pn and pk found for the two markers
Sections(d, pn, pk) ==
    IF pk /= -1 THEN <<Slice(d, pn + 4, pk), Slice(d, pk + 4, Len(d))>>
    ELSE <<Slice(d, pn + 4, Len(d))>>

\* lines 77-78: a K table whose values are all below the threshold is dropped
DropNegligible(kt) == IF kt /= None /\ Negligible(kt) THEN None ELSE kt

\* lines 81-92: the object dumped for the tables e and kt
Emit(e, kt) ==
    IF kt /= None /\ kt.shape[1] > 0
    THEN [Eta |-> Texture(e), K |-> Texture(kt)]
    ELSE [Eta |-> Texture(e)]

\* lines 69-92 given the outcomes of the calls of parse: a call that raises
\* ends the iteration, so a second call is made only when the first returned
Outcome(out, kt) ==
    [raised |-> \E j \in 1..Len(out) : out[j].raised,
     eta    |-> out[1].value,
     k      |-> kt,
     obj    |-> Emit(out[1].value, kt)]

AfterParse(out) ==
    Outcome(out, IF Len(out) = 2 /\ ~out[1].raised /\ ~out[2].raised
                 THEN DropNegligible(out[2].value) ELSE None)

\* the outcomes of the calls of parse on the texts secs
ParseAll(secs) == [j \in 1..Len(secs) |-> Parse(secs[j])]

\* lines 69-92: the tables and the object built from the text `d`
CsvBody(d) == AfterParse(ParseAll(Sections(d, Find(d, WLN), Find(d, WLK))))

\* the effect of an iteration that opens the output file before it parses
CsvEffectOpenFirst(d, b, name) ==
    /\ i' = i + 1
    /\ data' = d
    /\ eta' = b.eta
    /\ k' = b.k
    /\ status' = IF b.raised THEN "aborted" ELSE "running"
    /\ files' = [files EXCEPT ![name] = IF b.raised THEN Truncated ELSE b.obj]

\* lines 65-94: the effect of an iteration that read the text d and built b
CsvEffect(d, b, name) ==
    /\ i' = i + 1
    /\ data' = d
    /\ eta' = b.eta
    /\ k' = b.k
    /\ status' = IF b.raised THEN "aborted" ELSE "running"
    /\ files' = IF b.raised THEN files ELSE [files EXCEPT ![name] = b.obj]

\* lines 62-94: one iteration of the main loop; the file it reads holds one
\* of the texts `docs`
CsvIteration(docs) ==
    /\ importer = "csv"
    /\ status = "running"
    /\ i < Len(materials)
    /\ \E d \in docs : CsvEffect(d, CsvBody(d), materials[i + 1])
    /\ UNCHANGED <<importer, materials, spd, parseVars>>

\* --------------------------------------------- Mitsuba2 importer, main loop
\* np.squeeze: drop the axes of length one
Squeeze(a) == [shape |-> SelectSeq(a.shape, LAMBDA n : n /= 1), flat |-> a.flat]

\* np.loadtxt(path): raises on a missing or non-numeric file, else the rows
\* as an array, squeezed (ndmin = 0)
LoadTxt(f) ==
    IF ~f.exists \/ ~f.numeric THEN [raised |-> TRUE, value |-> None]
    ELSE [raised |-> FALSE, value |-> Squeeze(NpArray(f.rows))]

\* lines 44-59: the effect of an iteration whose loadtxt calls gave e and kk
MitsubaEffect(e, kk, name) ==
    /\ i' = i + 1
    /\ eta' = e.value
    /\ k' = IF e.raised THEN None ELSE kk.value
    /\ status' = IF e.raised \/ kk.raised THEN "aborted" ELSE "running"
    /\ files' = IF e.raised \/ kk.raised THEN files
                ELSE [files EXCEPT ![name] =
                         [Eta |-> Texture(e.value), K |-> Texture(kk.value)]]

\* lines 41-59: one iteration of the main loop; the two files it reads are
\* among etaFiles and kFiles
MitsubaIteration(etaFiles, kFiles) ==
    /\ importer = "mitsuba"
    /\ status = "running"
    /\ i < Len(materials)
    /\ \E fe \in etaFiles, fk \in kFiles :
          /\ spd' = [eta |-> fe, k |-> fk]
          /\ MitsubaEffect(LoadTxt(fe), LoadTxt(fk), materials[i + 1])
    /\ UNCHANGED <<importer, materials, data, parseVars>>

\* ------------------------------------------------------------ input files
NL == <<"\n">>
Row1 == <<".", "2", ",", "2", "\n">>                           \* 0.2,2
Row2 == <<".", "3", ",", ".", "0", "0", "0", "5", "\n">>       \* 0.3,0.0005
Row3 == <<".", "4", ",", "-", "2", "\n">>                      \* 0.4,-2
Row4 == <<".", "5", ",", ".", "0", "0", "1", "\n">>            \* 0.5,0.001
Row5 == <<".", "9", ",", "-", ".", "0", "0", "0", "5", "\n">>  \* 0.9,-0.0005

Fragments == {WLN, WLK, NL, Row1, Row2, Row3, Row4, Row5}

RECURSIVE Concat(_)
Concat(fs) == IF fs = <<>> THEN <<>> ELSE Head(fs) \o Concat(Tail(fs))

\* every text made of at most MaxFrags fragments
Docs == UNION { {Concat(fs) : fs \in [1..n -> Fragments]} : n \in 0..MaxFrags }

\* a few whole files: Eta only; Eta and K; negligible K; K negligible once
\* trimmed; empty K section; no marker and unreadable; no marker but readable
\* from offset 3
SampleDocs ==
    { Concat(<<WLN, NL, Row3, Row4>>),
      Concat(<<WLN, NL, Row3, WLK, NL, Row1, Row4>>),
      Concat(<<WLN, NL, Row3, WLK, NL, Row2>>),
      Concat(<<WLN, NL, Row3, Row4, WLK, NL, Row1, Row2>>),
      Concat(<<WLN, NL, Row3, WLK, NL>>),
      Concat(<<Row1, Row3>>),
      Concat(<<NL, NL, NL, Row3>>) }

\* an .spd file: missing, not numeric, or n rows "wavelength value"
SpdRows(n, v) == [j \in 1..n |-> <<(300 + 100 * j) * Unit, v + (j - 1) * Unit>>]
SpdMissing == [exists |-> FALSE, numeric |-> FALSE, rows |-> <<>>]
SpdGarbage == [exists |-> TRUE, numeric |-> FALSE, rows |-> <<>>]
SpdTable(n, v) == [exists |-> TRUE, numeric |-> TRUE, rows |-> SpdRows(n, v)]

EtaSpdFiles == {SpdGarbage} \cup {SpdTable(n, 11 * (Unit \div 10)) : n \in 1..MaxRows}
KSpdFiles == {SpdMissing} \cup {SpdTable(n, 23 * (Unit \div 10)) : n \in 1..MaxRows}

Names == {"gold", "silver"}

\* ------------------------------------------------- parse on a table of rows
WavelengthsNm == {200, 300, 359, 360, 500, 830, 831, 900, 1000}
SampleValues == {1 * Unit, 2 * Unit}

RECURSIVE Ascending(_)
Ascending(S) ==
    IF S = {} THEN <<>>
    ELSE LET m == CHOOSE x \in S : \A y \in S : x <= y
         IN  <<m>> \o Ascending(S \ {m})

\* the tables of at most MaxLen samples with strictly ascending wavelengths
Tables ==
    UNION { { [j \in 1..Len(Ascending(S)) |-> <<Ascending(S)[j] * Unit, f[Ascending(S)[j]]>>] :
                f \in [S -> SampleValues] } :
            S \in {T \in SUBSET WavelengthsNm : Cardinality(T) <= MaxLen} }

InitParse ==
    /\ rows \in Tables
    /\ res = <<>>
    /\ ret = None
    /\ pstate = "parsed"
    /\ importer = "none"
    /\ materials = <<>>
    /\ i = 0
    /\ status = "idle"
    /\ files = <<>>
    /\ data = <<>>
    /\ eta = None
    /\ k = None
    /\ spd = None

\* lines 35-44 of parse, on the rows collected by the line loop
ParseRows ==
    /\ pstate = "parsed"
    /\ res' = Trim(rows)
    /\ LET r == ParseTail(rows)
       IN  /\ ret' = r.value
           /\ pstate' = IF r.raised THEN "raised" ELSE "returned"
    /\ UNCHANGED <<rows, runVars>>

NextParse == ParseRows

SpecParse == InitParse /\ [][NextParse]_vars

\* ------------------------------------------------------- runs of the scripts
InitRunWith(imp, lists) ==
    /\ importer = imp
    /\ materials \in lists
    /\ i = 0
    /\ status = "running"
    /\ files \in [Names -> {Absent, Stale}]
    /\ data = <<>>
    /\ eta = None
    /\ k = None
    /\ spd = None
    /\ rows = <<>>
    /\ res = <<>>
    /\ ret = None
    /\ pstate = "idle"

MaterialLists == UNION { [1..n -> Names] : n \in 0..MaxMaterials }

\* a run of either script over the materials found by its directory walk
Init == \E imp \in {"csv", "mitsuba"} : InitRunWith(imp, MaterialLists)

CsvRunStep == CsvIteration(SampleDocs)

MitsubaRunStep == MitsubaIteration(EtaSpdFiles, KSpdFiles)

Next == CsvRunStep \/ MitsubaRunStep

Spec == Init /\ [][Next]_vars

\* the CSV script on a directory holding one file, of any generated text or
\* one of the whole files
InitFile == InitRunWith("csv", {<<"gold">>}) /\ files["silver"] = Absent

FileDocs == Docs \cup SampleDocs

CsvFileStep == CsvIteration(FileDocs)

NextFile == CsvFileStep

SpecFile == InitFile /\ [][NextFile]_vars

\* ---------------------------------------------------- claims on the trimming
IsBelow(r) == r[1] < MinWavelength
IsAbove(r) == r[1] > MaxWavelength
InBand(r) == ~IsBelow(r) /\ ~IsAbove(r)

HasInBand(t) == \E j \in 1..Len(t) : InBand(t[j])
HasBelow(t) == \E j \in 1..Len(t) : IsBelow(t[j])
HasAbove(t) == \E j \in 1..Len(t) : IsAbove(t[j])

\* the sample of `rows` at position j is among the samples left by the loops
KeptByTrim(j) == \E n \in 1..Len(res) : res[n] = rows[j]

\* C1: for a table of one or more samples with strictly ascending wavelengths,
\* parse returns (does not raise) a table with at least one sample, in which a
\* sample below 360 nm can only be the first one and a sample above 830 nm can
\* only be the last one; every other sample lies within [360, 830] nm.
C1_AtMostOneOutsideEachEnd ==
    (pstate /= "parsed" /\ Len(rows) >= 1) =>
        /\ pstate = "returned"
        /\ LET t == ArrayRows(ret)
           IN  /\ Len(t) >= 1
               /\ \A j \in 1..Len(t) :
                     /\ IsBelow(t[j]) => j = 1
                     /\ IsAbove(t[j]) => j = Len(t)
                     /\ (j /= 1 /\ j /= Len(t)) => InBand(t[j])

\* C1 witness: a table with two samples below and two above the band was
\* parsed, and the returned table starts below and ends above the band.
C1_Witness ==
    /\ pstate = "returned"
    /\ Len(rows) = 4
    /\ IsBelow(rows[2])
    /\ IsAbove(rows[3])
    /\ ret.shape[1] = 2
    /\ IsBelow(ArrayRows(ret)[1])
    /\ IsAbove(ArrayRows(ret)[2])

\* C2 as stated: for an ascending table with a sample in [360, 830] nm, no
\* sample of the returned table lies outside [360, 830] nm.
C2_Original ==
    (pstate = "returned" /\ HasInBand(rows)) =>
        \A j \in 1..Len(res) : InBand(res[j])

\* C2 amended: for an ascending table with a sample in [360, 830] nm, a
\* sample below 360 nm is dropped exactly when the sample after it is also
\* below 360 nm, a sample above 830 nm is dropped exactly when the sample
\* before it is also above 830 nm, and every sample within the band is kept.
C2_DroppedOnlyBehindAnotherOutside ==
    (pstate = "returned" /\ HasInBand(rows)) =>
        \A j \in 1..Len(rows) :
            KeptByTrim(j) <=>
                /\ ~(IsBelow(rows[j]) /\ j < Len(rows) /\ IsBelow(rows[j + 1]))
                /\ ~(IsAbove(rows[j]) /\ j > 1 /\ IsAbove(rows[j - 1]))

\* C2 witness: the table 300, 500, 900 nm was parsed and came back whole.
C2_Witness ==
    /\ pstate = "returned"
    /\ Len(rows) = 3
    /\ rows[1][1] = 300 * Unit
    /\ rows[2][1] = 500 * Unit
    /\ rows[3][1] = 900 * Unit
    /\ res = rows

\* C6 as stated: an ascending table of at least 2 samples none of which lies
\* in [360, 830] nm keeps at least 2 samples.
C6_Original ==
    (pstate /= "parsed" /\ Len(rows) >= 2 /\ ~HasInBand(rows)) =>
        (pstate = "returned" /\ Len(res) >= 2)

\* C6 amended: an ascending table of at least 2 samples none of which lies in
\* [360, 830] nm keeps exactly 2 samples when it has samples on both sides of
\* the band, and exactly 1 sample when all its samples lie on one side.
C6_OneSamplePerSide ==
    (pstate /= "parsed" /\ Len(rows) >= 2 /\ ~HasInBand(rows)) =>
        /\ pstate = "returned"
        /\ Len(res) = (IF HasBelow(rows) /\ HasAbove(rows) THEN 2 ELSE 1)
        /\ ret.shape[1] = Len(res)

\* C6 witness: a table of three samples, all below the band, came back with
\* one sample.
C6_Witness ==
    /\ pstate = "returned"
    /\ Len(rows) = 3
    /\ IsBelow(rows[3])
    /\ Len(res) = 1

\* the greatest sample below the band, the samples in the band, the smallest
\* sample above the band
RECURSIVE Keep(_, _)
Keep(t, j) ==
    IF j > Len(t) THEN <<>>
    ELSE (IF \/ InBand(t[j])
             \/ IsBelow(t[j]) /\ \A n \in 1..Len(t) : IsBelow(t[n]) => t[n][1] <= t[j][1]
             \/ IsAbove(t[j]) /\ \A n \in 1..Len(t) : IsAbove(t[n]) => t[n][1] >= t[j][1]
          THEN <<t[j]>> ELSE <<>>) \o Keep(t, j + 1)

\* C9: for a non-empty ascending table the two loops leave exactly the
\* greatest sample below 360 nm (if any), then every sample in [360, 830] nm,
\* then the smallest sample above 830 nm (if any), in order and with their
\* values; a table within the band is left as it is, and trimming the result
\* again changes nothing.
C9_TrimIsExact ==
    (pstate /= "parsed" /\ Len(rows) >= 1) =>
        /\ res = Keep(rows, 1)
        /\ (\A j \in 1..Len(rows) : InBand(rows[j])) => res = rows
        /\ Trim(res) = res

\* C9 witness: a table with two samples below the band, one in it and one
\* above it lost its first sample only.
C9_Witness ==
    /\ pstate = "returned"
    /\ Len(rows) = 4
    /\ IsBelow(rows[2])
    /\ InBand(rows[3])
    /\ IsAbove(rows[4])
    /\ res = Tail(rows)

\* ------------------------------------------------- claims on the main loops
Abs(x) == IF x < 0 THEN 0 - x ELSE x

\* the material the main loop handled last, and the file of its name in ior/
LastName == materials[i]
LastFile == files[LastName]

\* the CSV script has handled a material / has written its file
CsvHandled == importer = "csv" /\ i >= 1
CsvWritten == CsvHandled /\ status = "running"

HasMarkerN == Find(data, WLN) /= -1
HasMarkerK == Find(data, WLK) /= -1

\* the text after the "wl,k" marker, its rows, and the K table parse makes of it
KSection == Slice(data, Find(data, WLK) + 4, Len(data))
KRows == ParseLines(SplitLines(KSection))
KTable == Parse(KSection).value
KValues == {Column(KTable, 1)[r] : r \in 1..KTable.shape[1]}

\* C3 as stated: the Mitsuba2 importer writes, for files of one or more rows,
\* Eta and K arrays that are lists of [wavelength, value] pairs, one pair per
\* input row in input order.
C3_Original ==
    (importer = "mitsuba" /\ i >= 1 /\ status = "running") =>
        /\ LastFile.Eta.Array = NpArray(spd.eta.rows)
        /\ LastFile.K.Array = NpArray(spd.k.rows)

\* C4: when the CSV file has the "wl,k" marker and every value of its trimmed
\* K table is below 1e-3 in magnitude, the written object has no K key; when
\* the file has no "wl,k" marker the written object has the Eta key only.
C4_NegligibleKOmitted ==
    CsvWritten =>
        /\ (HasMarkerK /\ \A v \in KValues : Abs(v) < KThreshold) =>
                "K" \notin DOMAIN LastFile
        /\ ~HasMarkerK => DOMAIN LastFile = {"Eta"}

\* C4 witness: a file with both markers and two K rows, 0.2,2 and 0.3,0.0005,
\* of which the trimming leaves the negligible one, was written without a K key.
C4_Witness ==
    /\ CsvWritten
    /\ HasMarkerN
    /\ HasMarkerK
    /\ Len(KRows.value) = 2
    /\ KTable.shape[1] = 1
    /\ KValues = {Unit \div 2000}
    /\ DOMAIN LastFile = {"Eta"}

\* C5 as stated: a CSV file whose "wl,k" marker is followed by no rows is
\* still converted, to an object with the Eta key only.
C5_Original ==
    (/\ CsvHandled
     /\ HasMarkerN
     /\ HasMarkerK
     /\ ~Parse(Slice(data, Find(data, WLN) + 4, Find(data, WLK))).raised
     /\ ~KRows.raised
     /\ KRows.value = <<>>) =>
        (status = "running" /\ DOMAIN LastFile = {"Eta"})

\* C7 as stated: a CSV file without the "wl,n" marker makes the run abort and
\* no output file is written for it.
C7_Original ==
    (CsvHandled /\ ~HasMarkerN) =>
        (status = "aborted" /\ ~IsOutput(LastFile))

\* the materials whose iteration has completed
Completed == IF status = "aborted" THEN i - 1 ELSE i

C8_Written == \A j \in 1..Completed : IsOutput(files[materials[j]])

C8_Step ==
    /\ status = "aborted" => (files' = files /\ status' = "aborted" /\ i' = i)
    /\ status' = "aborted" => files' = files
    /\ \A n \in Names :
          files'[n] /= files[n] =>
              (status' = "running" /\ n = materials[i'] /\ IsOutput(files'[n]))

\* C8: in a run of either importer, every material handled before the first
\* failing one has its output file written; the iteration that fails changes
\* no file; after it nothing runs any more (the files, the loop position and
\* the aborted state stay as they are); and a file only ever changes by being
\* written in full for the material being handled.
C8_AbortLeavesEarlierOutputs == [](C8_Written) /\ [][C8_Step]_vars

\* C8 witness: of three materials the second failed; the first one's file is
\* written, the second one's is not.
C8_Witness ==
    /\ status = "aborted"
    /\ Len(materials) = 3
    /\ i = 2
    /\ materials[1] /= materials[2]
    /\ IsOutput(files[materials[1]])
    /\ ~IsOutput(files[materials[2]])

\* C10 as stated: when the CSV file has the "wl,k" marker and its trimmed K
\* table has a value of magnitude 1e-3 or more, the written object has the K
\* key with that table.
C10_Original ==
    (CsvWritten /\ HasMarkerK /\ \E v \in KValues : Abs(v) >= KThreshold) =>
        ("K" \in DOMAIN LastFile /\ LastFile.K.Array = KTable)

====
